---- MODULE Spec2Model ----
(***************************************************************************)
(* A model of Python/BibleTransliterations.py: the table loader, the       *)
(* substitution loop, the Hebrew and Greek transliterators and the         *)
(* validator.                                                              *)
(*                                                                         *)
(* A Python str is a sequence of one-character tokens.  A token is the     *)
(* ASCII character itself where there is one ("a", " ", "\n"), and a       *)
(* spelled-out name otherwise ("schwa" for U+0259, "HEBREW LETTER ALEF").  *)
(* Python indexes are 0-based; the helpers below keep Python's indexes.    *)
(***************************************************************************)
EXTENDS Integers, Sequences, FiniteSets, TLC

VARIABLES
    sourceTables,     \* the files sourceTables/<which>.tsv, by script name
    text,             \* the text the caller passes to every call of a run
    hebrew_tsv_rows,  \* module global (line 52)
    greek_tsv_rows,   \* module global (line 52)
    call              \* the last call made: its arguments, outcome and log

vars == <<sourceTables, text, hebrew_tsv_rows, greek_tsv_rows, call>>

(***************************************************************************)
(* Bounds of the model.                                                    *)
(***************************************************************************)
MaxRows == 3      \* data rows of a table file
MaxTextLen == 3   \* codepoints of a caller's text

(***************************************************************************)
(* Characters.                                                             *)
(***************************************************************************)
ALEF == "HEBREW LETTER ALEF"
BET == "HEBREW LETTER BET"
SHEVA == "HEBREW POINT SHEVA"
ALPHA == "GREEK SMALL LETTER ALPHA"
IOTA == "GREEK SMALL LETTER IOTA"
CAPITAL_ALPHA == "GREEK CAPITAL LETTER ALPHA"
CAPITAL_IOTA == "GREEK CAPITAL LETTER IOTA"
LF == "\n"
TAB == "\t"
SP == " "
SCHWA == "schwa"              \* U+0259
HCEDILLA == "h-cedilla"       \* U+1E29
SCARON == "s-caron"           \* U+0161
SCEDILLA == "s-cedilla"       \* U+015F
TCEDILLA == "t-cedilla"       \* U+0163
TSDIGRAPH == "ts-digraph"     \* U+02A6
KDESCENDER == "k-descender"  \* U+2C6A
VHOOK == "v-hook"             \* U+2C71
SUBA == "subscript-a"         \* U+2090
SUBE == "subscript-e"         \* U+2091
MODAPOSTROPHE == "modifier-apostrophe"  \* U+02BC
MODACUTE == "modifier-acute"            \* U+02CA

HebrewChars == {ALEF, BET, SHEVA}
GreekChars == {ALPHA, IOTA, CAPITAL_ALPHA, CAPITAL_IOTA}
\* Characters unicodedata has no name for (the control characters).
NamelessChars == {LF, TAB, "\r", "\f"}

\* unicodedata.name(char), reduced to what the program asks of it: which
\* script marker the name contains, or that there is no name (ValueError).
unicodedata_name(char) ==
    IF char \in NamelessChars THEN "ValueError"
    ELSE IF char \in HebrewChars THEN "HEBREW"
    ELSE IF char \in GreekChars THEN "GREEK"
    ELSE "OTHER"

(***************************************************************************)
(* Python str operations, on sequences, with Python's 0-based indexes.     *)
(***************************************************************************)
Min(a, b) == IF a < b THEN a ELSE b
Max(a, b) == IF a > b THEN a ELSE b

\* s[a:b] for 0 <= a, with b clipped to len(s).
Slice(s, a, b) == SubSeq(s, a + 1, Min(b, Len(s)))
\* s[a:]
SliceFrom(s, a) == SubSeq(s, a + 1, Len(s))
\* s[i] for 0 <= i < len(s)
At(s, i) == s[i + 1]

\* s.startswith(sub, at): sub lies in s at index at.
MatchAt(s, sub, at) ==
    /\ at + Len(sub) <= Len(s)
    /\ \A k \in 1..Len(sub) : s[at + k] = sub[k]

startswith(s, sub) == MatchAt(s, sub, 0)
endswith(s, sub) == Len(sub) <= Len(s) /\ MatchAt(s, sub, Len(s) - Len(sub))

\* s.find(sub, start): the lowest index >= start where sub lies, or -1.
RECURSIVE find(_, _, _)
find(s, sub, start) ==
    IF start + Len(sub) > Len(s) THEN -1
    ELSE IF MatchAt(s, sub, start) THEN start
    ELSE find(s, sub, start + 1)

\* sub in s
Contains(s, sub) == find(s, sub, 0) # -1

\* s.replace(old, new, count) for a non-empty old; count = -1 replaces every
\* occurrence, scanning left to right without overlap.
RECURSIVE replaceN(_, _, _, _)
replaceN(s, old, new, count) ==
    LET i == find(s, old, 0) IN
    IF count = 0 \/ i = -1 THEN s
    ELSE Slice(s, 0, i) \o new
           \o replaceN(SliceFrom(s, i + Len(old)), old, new,
                       IF count = -1 THEN -1 ELSE count - 1)

replace(s, old, new) == replaceN(s, old, new, -1)

\* s.count(sub) for a non-empty sub
RECURSIVE count(_, _)
count(s, sub) ==
    LET i == find(s, sub, 0) IN
    IF i = -1 THEN 0 ELSE 1 + count(SliceFrom(s, i + Len(sub)), sub)

\* str.rstrip(): trailing whitespace removed.
Whitespace == {SP, LF, TAB, "\r", "\f"}
RECURSIVE rstrip(_)
rstrip(s) ==
    IF s # <<>> /\ s[Len(s)] \in Whitespace THEN rstrip(SubSeq(s, 1, Len(s) - 1))
    ELSE s

\* s.split(sep) for a one-character sep: the fields between the separators,
\* empty fields kept.
RECURSIVE split(_, _)
split(s, sep) ==
    LET i == find(s, <<sep>>, 0) IN
    IF i = -1 THEN <<s>>
    ELSE <<Slice(s, 0, i)>> \o split(SliceFrom(s, i + 1), sep)

Digits == {"0", "1", "2", "3", "4", "5", "6", "7", "8", "9"}
isdigit(s) == s # <<>> /\ \A k \in 1..Len(s) : s[k] \in Digits

\* str.upper() of one character.
LowerCase == <<"a", "b", "c", "d", "e", "f", "g", "h", "i", "j", "k", "l", "m",
               "n", "o", "p", "q", "r", "s", "t", "u", "v", "w", "x", "y", "z">>
UpperCase == <<"A", "B", "C", "D", "E", "F", "G", "H", "I", "J", "K", "L", "M",
               "N", "O", "P", "Q", "R", "S", "T", "U", "V", "W", "X", "Y", "Z">>
upper(char) ==
    IF \E k \in 1..Len(LowerCase) : LowerCase[k] = char
    THEN UpperCase[CHOOSE k \in 1..Len(LowerCase) : LowerCase[k] = char]
    ELSE IF char = ALPHA THEN CAPITAL_ALPHA
    ELSE IF char = IOTA THEN CAPITAL_IOTA
    ELSE IF char = SCHWA THEN "SCHWA-capital"          \* U+018F
    ELSE IF char = HCEDILLA THEN "H-cedilla"           \* U+1E28
    ELSE IF char = SCARON THEN "S-caron"
    ELSE IF char = SCEDILLA THEN "S-cedilla"
    ELSE IF char = TCEDILLA THEN "T-cedilla"
    ELSE IF char = KDESCENDER THEN "K-descender"       \* U+2C69
    ELSE char

(***************************************************************************)
(* Outcomes and diagnostics.                                               *)
(***************************************************************************)
\* One logging call: its level, which message, and the number and text in it.
LogEntry(level, msg, n, t) == [level |-> level, msg |-> msg, n |-> n, text |-> t]

None == <<"<None>">>   \* Python's None where a str could stand


(***************************************************************************)
(* The table file and csv.DictReader.                                      *)
(*                                                                         *)
(* A file is [exists, bom, header, rows]: whether it can be opened,        *)
(* whether its first line starts with a byte order mark, the column names  *)
(* of its first line, and its data lines, each the sequence of its         *)
(* tab-separated cells (a blank line has no cell).                         *)
(***************************************************************************)
NoFile == [exists |-> FALSE, bom |-> FALSE, header |-> <<>>, rows |-> <<>>]
TableFile(header, rows) ==
    [exists |-> TRUE, bom |-> FALSE, header |-> header, rows |-> rows]

\* Lines 61-64: the byte order mark is cut from the first line.
RemoveBOM(file) == [file EXCEPT !.bom = FALSE]

\* The column names as read from the first line; a byte order mark left in
\* front of the first name is part of that name.
ColumnHeaders(file) ==
    [i \in 1..Len(file.header) |->
        IF file.bom /\ i = 1 THEN "\\ufeff..." ELSE file.header[i]]

RestKey == "<None>"   \* the key None, under which DictReader puts extra cells

\* csv.DictReader's row for one non-blank line: the cells by column name,
\* None for the columns the line has no cell for, and the cells beyond the
\* last column as a list under the key None.
DictReaderRow(fieldnames, cells) ==
    LET lf == Len(fieldnames)
        lr == Len(cells)
        keys == {fieldnames[i] : i \in 1..lf}
                  \cup (IF lf < lr THEN {RestKey} ELSE {})
    IN  [k \in keys |->
            IF k = RestKey /\ lf < lr THEN SubSeq(cells, lf + 1, lr)
            ELSE LET i == CHOOSE j \in 1..lf : fieldnames[j] = k
                 IN  IF i <= lr THEN cells[i] ELSE None]

\* The rows DictReader yields: blank lines are skipped.
DictReader(fieldnames, rows) ==
    LET nonBlank == SelectSeq(rows, LAMBDA cells : cells # <<>>)
    IN  [n \in 1..Len(nonBlank) |-> DictReaderRow(fieldnames, nonBlank[n])]

\* len(row)
DictLen(row) == Cardinality(DOMAIN row)

\* Line 75
source_language_code(which) == IF which = "Hebrew" THEN "hbo" ELSE "x-grc-koine"

(***************************************************************************)
(* load_transliteration_table (lines 53-98).                               *)
(***************************************************************************)
\* Lines 77-78: the column count of row n against the header's.
ColumnCountDiagnostic(row, original_column_headers, n) ==
    IF DictLen(row) # Len(original_column_headers)
    THEN {LogEntry("critical", "columns", n, <<>>)}
    ELSE {}

\* Lines 76-83: the loop over the rows from row n on (0-based, as enumerate
\* counts them).  acc is [tsv_rows, source_list, log].
RECURSIVE ReadRows(_, _, _, _, _)
ReadRows(dict_reader, original_column_headers, code, n, acc) ==
    IF n >= Len(dict_reader) THEN [outcome |-> "return"] @@ acc
    ELSE
      LET row == dict_reader[n + 1]
          log == acc.log \cup ColumnCountDiagnostic(row, original_column_headers, n)
      IN
      IF "en" \notin DOMAIN row
      THEN [outcome |-> "KeyError"] @@ [acc EXCEPT !.log = log]
      ELSE
        LET row2 == IF row["en"] = None THEN [row EXCEPT !["en"] = <<>>] ELSE row
            acc2 == [acc EXCEPT !.log = log, !.tsv_rows = Append(@, row2)]
        IN
        IF code \notin DOMAIN row2 THEN [outcome |-> "KeyError"] @@ acc2
        ELSE IF row2[code] = None \/ row2[code] = <<>>
        THEN [outcome |-> "AssertionError"] @@ acc2
        ELSE ReadRows(dict_reader, original_column_headers, code, n + 1,
                      [acc2 EXCEPT !.source_list = Append(@, row2[code])])

\* source_list.count(source)
ListCount(list, x) == Cardinality({k \in 1..Len(list) : list[k] = x})

\* The duplicate check without its last line: it logs and goes on.
DuplicateCheck_goesOn(source_list) ==
    LET source_set == {source_list[k] : k \in 1..Len(source_list)}
    IN  [outcome |-> "return",
         log |-> IF Cardinality(source_set) < Len(source_list)
                 THEN {LogEntry("critical", "duplicate entry", 0, <<>>)}
                 ELSE {}]

\* Lines 85-90: the duplicate check; it ends in the undefined name halt.
DuplicateCheck(source_list) ==
    LET source_set == {source_list[k] : k \in 1..Len(source_list)}
    IN  IF Cardinality(source_set) < Len(source_list)
        THEN [outcome |-> "NameError",
              log |-> {LogEntry("critical", "duplicate entry", 0, <<>>)}
                  \cup {LogEntry("critical", "duplicate count",
                                 ListCount(source_list, s), s) :
                          s \in {x \in source_set : ListCount(source_list, x) > 1}}]
        ELSE [outcome |-> "return", log |-> {}]

\* The key without its sign: the shortest source first.
SortKey_ascending(row, code) == Len(row[code])

\* The sort key of line 94: minus the length of the source.
SortKey(row, code) == 0 - Len(row[code])

\* A sort that is not stable: a row goes before the rows of the same key.
RECURSIVE InsertSorted_unstable(_, _, _)
InsertSorted_unstable(sortedRows, row, code) ==
    IF sortedRows = <<>> THEN <<row>>
    ELSE IF SortKey(sortedRows[Len(sortedRows)], code) < SortKey(row, code)
    THEN Append(sortedRows, row)
    ELSE Append(InsertSorted_unstable(SubSeq(sortedRows, 1, Len(sortedRows) - 1),
                                      row, code),
                sortedRows[Len(sortedRows)])

\* sorted() is stable: a row goes behind every row whose key is not larger.
RECURSIVE InsertSorted(_, _, _)
InsertSorted(sortedRows, row, code) ==
    IF sortedRows = <<>> THEN <<row>>
    ELSE IF SortKey(sortedRows[Len(sortedRows)], code) <= SortKey(row, code)
    THEN Append(sortedRows, row)
    ELSE Append(InsertSorted(SubSeq(sortedRows, 1, Len(sortedRows) - 1), row, code),
                sortedRows[Len(sortedRows)])

RECURSIVE sorted(_, _)
sorted(tsv_rows, code) ==
    IF tsv_rows = <<>> THEN <<>>
    ELSE InsertSorted(sorted(SubSeq(tsv_rows, 1, Len(tsv_rows) - 1), code),
                      tsv_rows[Len(tsv_rows)], code)

\* The two globals taken one for the other.
Destination_swapped(which) ==
    IF which = "Hebrew" THEN "greek_tsv_rows" ELSE "hebrew_tsv_rows"

\* Lines 93-95: the global a load of which is stored in.
Destination(which) == IF which = "Hebrew" THEN "hebrew_tsv_rows" ELSE "greek_tsv_rows"

\* The whole function: [outcome, rows, log]; rows is what the destination
\* global is set to when the outcome is "return".
load_transliteration_table(which, files) ==
    LET file == files[which] IN
    IF ~file.exists
    THEN [outcome |-> "FileNotFoundError", rows |-> <<>>, log |-> {}]
    ELSE
      LET tsv_lines == RemoveBOM(file)
          original_column_headers == ColumnHeaders(tsv_lines)
          code == source_language_code(which)
          read == ReadRows(DictReader(original_column_headers, tsv_lines.rows),
                           original_column_headers, code, 0,
                           [tsv_rows |-> <<>>, source_list |-> <<>>, log |-> {}])
          dup == DuplicateCheck(read.source_list)
      IN
      IF read.outcome # "return"
      THEN [outcome |-> read.outcome, rows |-> <<>>, log |-> read.log]
      ELSE IF dup.outcome # "return"
      THEN [outcome |-> dup.outcome, rows |-> <<>>, log |-> read.log \cup dup.log]
      ELSE [outcome |-> "return", rows |-> sorted(read.tsv_rows, code),
            log |-> read.log]

\* The value of a table global: None (line 52) or a list of rows.
NoneRows == [isNone |-> TRUE, rows |-> <<>>]
RowList(rows) == [isNone |-> FALSE, rows |-> rows]


(***************************************************************************)
(* The script span (lines 115-134 and 329-338).                            *)
(***************************************************************************)
\* The scan that stops at a character without a name, as at one of the script.
ScanMatches_stopsAtNameless(char, script) ==
    unicodedata_name(char) \in {script, "ValueError"}

\* Whether the forward and backward scans of the transliterators catch the
\* ValueError of a character without a name and go on (lines 117-120).
ScanMatches(char, script) ==
    LET name == unicodedata_name(char) IN
    IF name = "ValueError" THEN FALSE ELSE name = script

\* The for loop of lines 116-120 (330-335) from index i on: the index it
\* breaks at, or -1 when it runs to its else clause.
RECURSIVE first_index(_, _, _)
first_index(input, script, i) ==
    IF i >= Len(input) THEN -1
    ELSE IF ScanMatches(At(input, i), script) THEN i
    ELSE first_index(input, script, i + 1)

\* The for loop of lines 125-129 over reversed(input) from index k on: the
\* index it breaks at (the last one when it does not break).
RECURSIVE reversed_index(_, _, _)
reversed_index(input, script, k) ==
    IF k >= Len(input) - 1 THEN Len(input) - 1
    ELSE IF ScanMatches(At(input, Len(input) - 1 - k), script) THEN k
    ELSE reversed_index(input, script, k + 1)

\* Line 130
past_index(input, script) == Len(input) - reversed_index(input, script, 0)

(***************************************************************************)
(* The substitution loop (lines 139-140 and 340-342).                      *)
(***************************************************************************)
\* The replacement the wrong way round: the target replaced by the source.
SubstituteRow_reversed(s, tsv_row, code) == replace(s, tsv_row["en"], tsv_row[code])

\* One turn of the loop: every occurrence of the row's source is replaced.
SubstituteRow(s, tsv_row, code) == replace(s, tsv_row[code], tsv_row["en"])

\* The loop from row k (1-based) of the table on.
RECURSIVE SubstitutionLoop(_, _, _, _)
SubstitutionLoop(s, tsv_rows, code, k) ==
    IF k > Len(tsv_rows) THEN s
    ELSE SubstitutionLoop(SubstituteRow(s, tsv_rows[k], code), tsv_rows, code, k + 1)

(***************************************************************************)
(* transliterate_Hebrew, step by step (lines 146-310).  A step yields      *)
(* [outcome, s, log]: "return" when it went through, with the running      *)
(* text s, or the exception it raised.                                     *)
(***************************************************************************)
Ok(s) == [outcome |-> "return", s |-> s, log |-> {}]
Raise(exception, s, log) == [outcome |-> exception, s |-> s, log |-> log]

IYSafetyCount == 2000
SchwaSafetyCount == 6

IY == <<"i", "y">>
IYConsonants == {"b", "d", "f", "g", "h", "k", "l", "m", "n", "p", "q", "r", "s",
                 SCEDILLA, "t", TCEDILLA, "v", "z"}

\* The y is deleted whatever follows it.
RECURSIVE IYLoop_anyLetter(_, _, _)
IYLoop_anyLetter(s, searchStartIndex, safetyCount) ==
    LET ixIY == find(s, IY, searchStartIndex) IN
    IF ixIY = -1 \/ ixIY + 2 >= Len(s) THEN Ok(s)
    ELSE IYLoop_anyLetter(Slice(s, 0, ixIY + 1) \o SliceFrom(s, ixIY + 2), ixIY + 2,
                          safetyCount + 1)

\* Lines 148-159: the loop from its _safetyCount-th turn on.
RECURSIVE IYLoop(_, _, _)
IYLoop(s, searchStartIndex, safetyCount) ==
    IF safetyCount >= IYSafetyCount
    THEN Raise("NameError", s, {LogEntry("critical", "not enough IY loops", count(s, IY), <<>>)})
    ELSE
      LET ixIY == find(s, IY, searchStartIndex) IN
      IF ixIY = -1 THEN Ok(s)
      ELSE IF ixIY + 2 >= Len(s) THEN Ok(s)
      ELSE IF At(s, ixIY + 2) \in IYConsonants
      THEN IYLoop(Slice(s, 0, ixIY + 1) \o SliceFrom(s, ixIY + 2), ixIY + 2, safetyCount + 1)
      ELSE IYLoop(s, ixIY + 2, safetyCount + 1)

\* Lines 161-166
InitialDagesh(s) ==
    IF Len(s) >= 2 /\ At(s, 0) = At(s, 1) THEN SliceFrom(s, 1) ELSE s

HtmTop == <<"h", "t", "m", "#", "T", "o", "p", "\"", ">">>
Htm == <<"h", "t", "m", "\"", ">">>
CloseA == <<"<", "/", "a", ">">>

\* Lines 170-174
CleanedForWords(s) ==
    rstrip(replace(replace(replace(replace(replace(replace(replace(replace(replace(
        s, <<",">>, <<SP>>), <<".">>, <<SP>>), <<"-">>, <<SP>>),
        HtmTop, <<SP>>), Htm, <<SP>>), CloseA, <<>>),
        <<LF>>, <<SP>>),
        <<SP, SP, SP>>, <<SP>>), <<SP, SP>>, <<SP>>))

\* Lines 182-191: the running text after a doubled first letter of the word
\* has been handled.
RemoveDoubledInitial(s, word, cc) ==
    IF cc = 0
    THEN replaceN(s, word, SliceFrom(word, 1), 1)
    ELSE replaceN(replaceN(s, <<SP>> \o word, <<SP>> \o SliceFrom(word, 1), 1),
                  <<">">> \o word, <<">">> \o SliceFrom(word, 1), 1)

HA == <<HCEDILLA, "a">>
AH == <<"a", HCEDILLA>>

\* Lines 203-208
SwapFinalHA(s, word) ==
    LET swapped == Slice(word, 0, Len(word) - 2) \o AH IN
    IF endswith(s, word)
    THEN replace(s, word, swapped)
    ELSE replaceN(replaceN(s, word \o <<SP>>, swapped \o <<SP>>, 1),
                  word \o <<"<">>, swapped \o <<"<">>, 1)

\* Lines 175-208: the loop over the words from word cc (0-based) on.
RECURSIVE DageshWordLoop(_, _, _)
DageshWordLoop(s, words, cc) ==
    IF cc >= Len(words) THEN Ok(s)
    ELSE
      LET word == words[cc + 1] IN
      IF word = <<>> THEN Raise("AssertionError", s, {})
      ELSE IF isdigit(word) \/ Len(word) < 2 THEN DageshWordLoop(s, words, cc + 1)
      ELSE
        LET doubled == At(word, 0) = At(word, 1)
            s1 == IF doubled THEN RemoveDoubledInitial(s, word, cc) ELSE s
            word1 == IF doubled THEN SliceFrom(word, 1) ELSE word
            s2 == IF endswith(word1, HA) THEN SwapFinalHA(s1, word1) ELSE s1
        IN  DageshWordLoop(s2, words, cc + 1)

\* The condition of one of the assert statements of lines 209-212.
NoDoubled(s, letter) ==
    /\ ~startswith(s, <<letter, letter>>)
    /\ ~Contains(s, <<SP, letter, letter>>)
    /\ ~Contains(s, <<">", letter, letter>>)

\* Lines 209-213
PostDageshAsserts(s) ==
    /\ NoDoubled(s, "b") /\ NoDoubled(s, "d") /\ NoDoubled(s, "k") /\ NoDoubled(s, "t")
    /\ ~Contains(s, HA \o <<SP>>) /\ ~Contains(s, HA \o <<".">>)
    /\ ~Contains(s, HA \o <<"<">>)

\* Line 217
CleanedForSchwa(s) ==
    rstrip(replace(replace(replace(replace(replace(
        s, <<",">>, <<SP>>), <<".">>, <<SP>>), <<LF>>, <<SP>>),
        <<SP, SP, SP>>, <<SP>>), <<SP, SP>>, <<SP>>))

SchwaConsonants == {MODAPOSTROPHE, MODACUTE, "b", "d", "f", "g", "h", HCEDILLA, "k",
                    KDESCENDER, "l", "m", "n", "p", "q", "r", "s", SCEDILLA, SCARON,
                    "t", TCEDILLA, TSDIGRAPH, "v", VHOOK, "y", "z"}
ShortVowels == {"a", "e", "i", "o", "u"}
DageshAfterSchwa == {"d", "g", "k", "m", "q", "r", TSDIGRAPH, "y"}

\* Lines 240-243: the number of letters to delete at shwaIndex, 0 for none.
NumLettersToDelete(word, shwaIndex) ==
    LET prevChar1 == At(word, shwaIndex - 1)
        prevChar2 == At(word, shwaIndex - 2)
        nextChar1 == IF shwaIndex + 1 < Len(word) THEN At(word, shwaIndex + 1) ELSE SP
        hasNext2 == shwaIndex + 2 < Len(word)
    IN  IF prevChar1 \in SchwaConsonants /\ prevChar2 \in ShortVowels
        THEN IF /\ nextChar1 \in DageshAfterSchwa
                /\ hasNext2 /\ At(word, shwaIndex + 2) = nextChar1
             THEN 2 ELSE 1
        ELSE 0

\* The loop of one word without its cap.
RECURSIVE SchwaLoop_uncapped(_, _, _, _)
SchwaLoop_uncapped(s, word, searchStartIndex, safetyCount) ==
    LET shwaIndex == find(word, <<SCHWA>>, searchStartIndex) IN
    IF shwaIndex = -1 THEN Ok(s)
    ELSE IF shwaIndex < 2
    THEN SchwaLoop_uncapped(s, word, shwaIndex + 1, safetyCount + 1)
    ELSE
      LET numLettersToDelete == NumLettersToDelete(word, shwaIndex)
          newWord == Slice(word, 0, shwaIndex)
                       \o SliceFrom(word, shwaIndex + numLettersToDelete)
      IN  IF numLettersToDelete > 0
          THEN SchwaLoop_uncapped(replace(s, word, newWord), newWord, shwaIndex,
                                  safetyCount + 1)
          ELSE SchwaLoop_uncapped(s, word, shwaIndex + 1, safetyCount + 1)

\* Lines 226-271: the loop of one word from its _safetyCount-th turn on.
RECURSIVE SchwaLoop(_, _, _, _)
SchwaLoop(s, word, searchStartIndex, safetyCount) ==
    IF safetyCount >= SchwaSafetyCount THEN Raise("NameError", s, {})
    ELSE
      LET shwaIndex == find(word, <<SCHWA>>, searchStartIndex) IN
      IF shwaIndex = -1 THEN Ok(s)
      ELSE IF shwaIndex < 2 THEN SchwaLoop(s, word, shwaIndex + 1, safetyCount + 1)
      ELSE
        LET numLettersToDelete == NumLettersToDelete(word, shwaIndex)
            newWord == Slice(word, 0, shwaIndex)
                         \o SliceFrom(word, shwaIndex + numLettersToDelete)
        IN  IF numLettersToDelete > 0
            THEN SchwaLoop(replace(s, word, newWord), newWord, shwaIndex, safetyCount + 1)
            ELSE SchwaLoop(s, word, shwaIndex + 1, safetyCount + 1)

\* Lines 218-271: the loop over the words from word cc (0-based) on.
RECURSIVE SchwaWordLoop(_, _, _)
SchwaWordLoop(s, words, cc) ==
    IF cc >= Len(words) THEN Ok(s)
    ELSE
      LET word == words[cc + 1] IN
      IF word = <<>> THEN Raise("AssertionError", s, {})
      ELSE IF isdigit(word) \/ Len(word) < 2 \/ ~Contains(word, <<SCHWA>>)
      THEN SchwaWordLoop(s, words, cc + 1)
      ELSE LET r == SchwaLoop(s, word, 0, 0) IN
           IF r.outcome # "return" THEN r ELSE SchwaWordLoop(r.s, words, cc + 1)

\* No check for left-overs.
LeftOverCheck_none(s, script, i) == Ok(s)

\* Lines 278-281 and 348-351: the first character, from index i on, that
\* ends the check: "return" when there is none.
RECURSIVE LeftOverCheck(_, _, _)
LeftOverCheck(s, script, i) ==
    IF i >= Len(s) THEN Ok(s)
    ELSE IF At(s, i) = LF THEN LeftOverCheck(s, script, i + 1)
    ELSE IF unicodedata_name(At(s, i)) = "ValueError" THEN Raise("ValueError", s, {})
    ELSE IF unicodedata_name(At(s, i)) = script
    THEN Raise("NameError", s, {LogEntry("critical", "left-overs", i, <<At(s, i)>>)})
    ELSE LeftOverCheck(s, script, i + 1)

\* Lines 288-295 and 297-306: the capital form of one character.
Capital(char) ==
    IF char = TSDIGRAPH THEN <<"T", "s">>
    ELSE IF char = SUBA THEN <<"A">>
    ELSE IF char = SUBE THEN <<"E">>
    ELSE IF char = VHOOK THEN <<"V">>
    ELSE <<upper(char)>>

\* Lines 288-309
Capitalise(s) ==
    IF s = <<>> THEN Raise("IndexError", s, {})
    ELSE IF At(s, 0) \in {MODAPOSTROPHE, MODACUTE}
    THEN IF Len(s) < 2 THEN Raise("IndexError", s, {})
         ELSE LET capitalisedHebrew == <<At(s, 0)>> \o Capital(At(s, 1)) \o SliceFrom(s, 2)
              IN  IF capitalisedHebrew # s THEN Ok(capitalisedHebrew)
                  ELSE Raise("AssertionError", s, {})
    ELSE LET capitalisedHebrew == Capital(At(s, 0)) \o SliceFrom(s, 1)
         IN  IF capitalisedHebrew # s THEN Ok(capitalisedHebrew)
             ELSE Raise("AssertionError", s, {})


(***************************************************************************)
(* What a call yields: its outcome ("return" or the exception raised), the *)
(* text returned, the diagnostics logged, and the text the substitution    *)
(* loop was run on and left (ranLoop: whether the loop was reached).       *)
(***************************************************************************)
Yield(outcome, value, log, ranLoop, loopInput, loopOutput) ==
    [outcome |-> outcome, value |-> value, log |-> log,
     ranLoop |-> ranLoop, loopInput |-> loopInput, loopOutput |-> loopOutput]

\* Lines 146-281: the repairs of the transliterated span, after the
\* substitution loop, up to the left-over check.
HebrewRepairs(transliteratedHebrewInput) ==
    LET iy == IYLoop(transliteratedHebrewInput, 0, 0) IN
    IF iy.outcome # "return" THEN iy
    ELSE
      LET s1 == InitialDagesh(iy.s)
          dagesh == DageshWordLoop(s1, split(CleanedForWords(s1), SP), 0)
      IN
      IF dagesh.outcome # "return" THEN dagesh
      ELSE IF ~PostDageshAsserts(dagesh.s) THEN Raise("AssertionError", dagesh.s, {})
      ELSE
        LET schwa == SchwaWordLoop(dagesh.s, split(CleanedForSchwa(dagesh.s), SP), 0) IN
        IF schwa.outcome # "return" THEN schwa
        ELSE LeftOverCheck(replace(schwa.s, <<SCARON>>, <<"s", "h">>), "HEBREW", 0)

(***************************************************************************)
(* The running text of a call after each of its stages, as far as the call *)
(* got ("reached" names the last stage it went through):                   *)
(*   transliterate_Hebrew: "loop" (line 140), "iy" (lines 148-159),        *)
(*     "words" (lines 161-208), "asserts" (lines 209-213), "schwa" (lines  *)
(*     217-271), "checked" (lines 275-281);                                *)
(*   transliterate_Greek: "loop" (line 342), "aui" (lines 345-346),        *)
(*     "checked" (lines 348-351).                                          *)
(* The text of a stage the call did not reach is the empty text.           *)
(***************************************************************************)
Stages(reached, afterIY, afterInitialDagesh, afterWords, afterSchwa, afterAui, checked) ==
    [reached |-> reached, afterIY |-> afterIY, afterInitialDagesh |-> afterInitialDagesh,
     afterWords |-> afterWords, afterSchwa |-> afterSchwa, afterAui |-> afterAui,
     checked |-> checked]

NoStages == Stages("none", <<>>, <<>>, <<>>, <<>>, <<>>, <<>>)

\* Lines 146-281, stage by stage.
HebrewStages(transliteratedHebrewInput) ==
    LET iy == IYLoop(transliteratedHebrewInput, 0, 0)
        s1 == InitialDagesh(iy.s)
        dagesh == DageshWordLoop(s1, split(CleanedForWords(s1), SP), 0)
        schwa == SchwaWordLoop(dagesh.s, split(CleanedForSchwa(dagesh.s), SP), 0)
        checked == LeftOverCheck(replace(schwa.s, <<SCARON>>, <<"s", "h">>), "HEBREW", 0)
    IN
    IF iy.outcome # "return" THEN Stages("loop", <<>>, <<>>, <<>>, <<>>, <<>>, <<>>)
    ELSE IF dagesh.outcome # "return" THEN Stages("iy", iy.s, s1, <<>>, <<>>, <<>>, <<>>)
    ELSE IF ~PostDageshAsserts(dagesh.s)
    THEN Stages("words", iy.s, s1, dagesh.s, <<>>, <<>>, <<>>)
    ELSE IF schwa.outcome # "return"
    THEN Stages("asserts", iy.s, s1, dagesh.s, <<>>, <<>>, <<>>)
    ELSE IF checked.outcome # "return"
    THEN Stages("schwa", iy.s, s1, dagesh.s, schwa.s, <<>>, <<>>)
    ELSE Stages("checked", iy.s, s1, dagesh.s, schwa.s, <<>>, checked.s)

\* The stages of transliterate_Hebrew(input, ...) with the table given.
transliterate_Hebrew_stages(input, table) ==
    LET first_Hebrew_index == first_index(input, "HEBREW", 0) IN
    IF first_Hebrew_index = -1 \/ table.isNone THEN NoStages
    ELSE HebrewStages(SubstitutionLoop(
             Slice(input, first_Hebrew_index, past_index(input, "HEBREW")),
             table.rows, "hbo", 1))

\* The text after the span taken from one place too far.
Reassemble_offByOne(input, first_index_, past_index_, span) ==
    Slice(input, 0, first_index_) \o span \o SliceFrom(input, past_index_ + 1)

\* Lines 285 and 310: the text returned.
Reassemble(input, first_index_, past_index_, span) ==
    Slice(input, 0, first_index_) \o span \o SliceFrom(input, past_index_)

\* Line 134
HebrewSpan(input, first_Hebrew_index, past_Hebrew_index) ==
    Slice(input, first_Hebrew_index, past_Hebrew_index)

\* None taken for a table without rows.
Iterable_always(table) == TRUE

\* Lines 139 and 340: a for loop over the table global raises TypeError when
\* the global is still None.
Iterable(table) == ~table.isNone

\* Lines 101-310.  table is the value of hebrew_tsv_rows.
transliterate_Hebrew(input, capitaliseHebrew, table) ==
    LET first_Hebrew_index == first_index(input, "HEBREW", 0) IN
    IF first_Hebrew_index = -1
    THEN Yield("return", input, {LogEntry("warning", "no Hebrew", 0, input)},
               FALSE, <<>>, <<>>)
    ELSE
      LET past_Hebrew_index == past_index(input, "HEBREW")
          hebrewInput == HebrewSpan(input, first_Hebrew_index, past_Hebrew_index)
      IN
      IF ~Iterable(table) THEN Yield("TypeError", <<>>, {}, FALSE, hebrewInput, <<>>)
      ELSE
        LET afterLoop == SubstitutionLoop(hebrewInput, table.rows, "hbo", 1)
            repaired == HebrewRepairs(afterLoop)
            capitalised == IF capitaliseHebrew THEN Capitalise(repaired.s)
                           ELSE Ok(repaired.s)
        IN
        IF repaired.outcome # "return"
        THEN Yield(repaired.outcome, <<>>, repaired.log, TRUE, hebrewInput, afterLoop)
        ELSE IF capitalised.outcome # "return"
        THEN Yield(capitalised.outcome, <<>>, {}, TRUE, hebrewInput, afterLoop)
        ELSE Yield("return",
                   Reassemble(input, first_Hebrew_index, past_Hebrew_index, capitalised.s),
                   {}, TRUE, hebrewInput, afterLoop)

AUI == <<"a", "u", "i">>
AWI == <<"a", "w", "i">>

\* Lines 344-346
FixAui(result, first_Greek_index) ==
    IF Contains(SliceFrom(result, first_Greek_index), AUI)
    THEN Slice(result, 0, first_Greek_index)
           \o replace(SliceFrom(result, first_Greek_index), AUI, AWI)
    ELSE result

\* Lines 353-357
FixInitialIe(result, first_Greek_index) ==
    IF startswith(SliceFrom(result, first_Greek_index), <<"i", "e">>)
    THEN Slice(result, 0, first_Greek_index) \o <<"y", "e">>
           \o SliceFrom(result, first_Greek_index + 2)
    ELSE IF startswith(SliceFrom(result, first_Greek_index), <<"I", "e">>)
    THEN Slice(result, 0, first_Greek_index) \o <<"Y", "e">>
           \o SliceFrom(result, first_Greek_index + 2)
    ELSE result

\* Lines 325-360.  table is the value of greek_tsv_rows.
transliterate_Greek(input, table) ==
    LET first_Greek_index == first_index(input, "GREEK", 0) IN
    IF first_Greek_index = -1
    THEN Yield("return", input, {LogEntry("warning", "no Greek", 0, input)},
               FALSE, <<>>, <<>>)
    ELSE IF ~Iterable(table) THEN Yield("TypeError", <<>>, {}, FALSE, input, <<>>)
    ELSE
      LET afterLoop == SubstitutionLoop(input, table.rows, "x-grc-koine", 1)
          checked == LeftOverCheck(FixAui(afterLoop, first_Greek_index), "GREEK", 0)
      IN
      IF checked.outcome # "return"
      THEN Yield(checked.outcome, <<>>, checked.log, TRUE, input, afterLoop)
      ELSE Yield("return", FixInitialIe(checked.s, first_Greek_index), {},
                 TRUE, input, afterLoop)

\* The stages of transliterate_Greek(input, ...) with the table given.
transliterate_Greek_stages(input, table) ==
    LET first_Greek_index == first_index(input, "GREEK", 0) IN
    IF first_Greek_index = -1 \/ table.isNone THEN NoStages
    ELSE
      LET afterLoop == SubstitutionLoop(input, table.rows, "x-grc-koine", 1)
          afterAui == FixAui(afterLoop, first_Greek_index)
          checked == LeftOverCheck(afterAui, "GREEK", 0)
      IN  IF checked.outcome # "return"
          THEN Stages("aui", <<>>, <<>>, <<>>, <<>>, afterAui, <<>>)
          ELSE Stages("checked", <<>>, <<>>, <<>>, <<>>, afterAui, checked.s)

(***************************************************************************)
(* The validator (lines 470-495).                                          *)
(***************************************************************************)
ENDASH == "en-dash"
AllowedChars == {SP, MODAPOSTROPHE, ",", ".", "?", "!", ":", ";", "-", ENDASH, "/", "\\",
                 "1", "2", "3", "4", "5", "6", "7", "8", "9", "0",
                 "left-double-quote", "right-double-quote", "left-single-quote",
                 "right-single-quote", "(", ")", "pilcrow", "ellipsis", "copyright"}

\* Lines 473-481 from character c (1-based) on: 0 for the return of True,
\* else the position c returned.
RECURSIVE check_line_from(_, _)
check_line_from(line, c) ==
    IF c > Len(line) THEN 0
    ELSE IF line[c] \in AllowedChars THEN check_line_from(line, c + 1)
    ELSE IF unicodedata_name(line[c]) = "ValueError" THEN check_line_from(line, c + 1)
    ELSE IF unicodedata_name(line[c]) \in {"GREEK", "HEBREW"} THEN c
    ELSE check_line_from(line, c + 1)

check_line(line) == check_line_from(line, 1)

\* The first line alone is checked.
check_lines_from_firstLineOnly(lines, l) ==
    IF l > Len(lines) \/ check_line(lines[l]) = 0
    THEN [passed |-> TRUE, l |-> 0, c |-> 0, char |-> <<>>]
    ELSE [passed |-> FALSE, l |-> l, c |-> check_line(lines[l]),
          char |-> <<lines[l][check_line(lines[l])]>>]

\* Lines 487-494 from line l (1-based) on: [passed, l, c, char].
RECURSIVE check_lines_from(_, _)
check_lines_from(lines, l) ==
    IF l > Len(lines) THEN [passed |-> TRUE, l |-> 0, c |-> 0, char |-> <<>>]
    ELSE IF check_line(lines[l]) # 0
    THEN [passed |-> FALSE, l |-> l, c |-> check_line(lines[l]),
          char |-> <<lines[l][check_line(lines[l])]>>]
    ELSE check_lines_from(lines, l + 1)

check_text(t) == check_lines_from(split(t, LF), 1)

(***************************************************************************)
(* The calls.                                                              *)
(***************************************************************************)
Call(op, which, capitaliseHebrew, yield, passed, position) ==
    [op |-> op, which |-> which, capitaliseHebrew |-> capitaliseHebrew,
     passed |-> passed, position |-> position, stages |-> NoStages] @@ yield

\* The record of a call that ran through the stages given.
Staged(callRecord, stages) == [callRecord EXCEPT !.stages = stages]

NoCall == Call("none", "", FALSE, Yield("none", <<>>, {}, FALSE, <<>>, <<>>), FALSE, 0)

ScriptNames == {"Hebrew", "Greek", "Latin"}

Load(which) ==
    LET r == load_transliteration_table(which, sourceTables)
        stored == r.outcome = "return"
    IN
    /\ hebrew_tsv_rows' = IF stored /\ Destination(which) = "hebrew_tsv_rows"
                          THEN RowList(r.rows) ELSE hebrew_tsv_rows
    /\ greek_tsv_rows' = IF stored /\ Destination(which) = "greek_tsv_rows"
                         THEN RowList(r.rows) ELSE greek_tsv_rows
    /\ call' = Call("load_transliteration_table", which, FALSE,
                    Yield(r.outcome, <<>>, r.log, FALSE, <<>>, <<>>), stored, 0)
    /\ UNCHANGED <<sourceTables, text>>

TransliterateHebrew(capitaliseHebrew) ==
    /\ call' = Staged(Call("transliterate_Hebrew", "", capitaliseHebrew,
                           transliterate_Hebrew(text, capitaliseHebrew, hebrew_tsv_rows),
                           FALSE, 0),
                      transliterate_Hebrew_stages(text, hebrew_tsv_rows))
    /\ UNCHANGED <<sourceTables, text, hebrew_tsv_rows, greek_tsv_rows>>

TransliterateGreek ==
    /\ call' = Staged(Call("transliterate_Greek", "", FALSE,
                           transliterate_Greek(text, greek_tsv_rows), FALSE, 0),
                      transliterate_Greek_stages(text, greek_tsv_rows))
    /\ UNCHANGED <<sourceTables, text, hebrew_tsv_rows, greek_tsv_rows>>

CheckLine ==
    /\ call' = Call("check_line", "", FALSE,
                    Yield("return", <<>>, {}, FALSE, <<>>, <<>>),
                    check_line(text) = 0, check_line(text))
    /\ UNCHANGED <<sourceTables, text, hebrew_tsv_rows, greek_tsv_rows>>

CheckText ==
    LET r == check_text(text) IN
    /\ call' = Call("check_text", "", FALSE,
                    Yield("return", <<>>,
                          IF r.passed THEN {}
                          ELSE {LogEntry("critical", "found", r.l, r.char)},
                          FALSE, <<>>, <<>>),
                    r.passed, r.c)
    /\ UNCHANGED <<sourceTables, text, hebrew_tsv_rows, greek_tsv_rows>>

Next ==
    \/ \E which \in ScriptNames : Load(which)
    \/ \E capitaliseHebrew \in BOOLEAN : TransliterateHebrew(capitaliseHebrew)
    \/ TransliterateGreek
    \/ CheckLine
    \/ CheckText


(***************************************************************************)
(* The inputs of a run: the table files and the caller's text.             *)
(***************************************************************************)
\* The texts of at most n characters of an alphabet.
Texts(alphabet, n) == UNION {[1..k -> alphabet] : k \in 0..n}

\* The sequences of at most n elements of a set.
SeqsUpTo(set, n) == UNION {[1..k -> set] : k \in 0..n}

HebrewHeader == <<"hbo", "name", "en">>
GreekHeader == <<"x-grc-koine", "name", "en">>
Header(which) == IF which = "Hebrew" THEN HebrewHeader ELSE GreekHeader

\* A data line with a cell for every column.
Line(source, target) == <<source, <<"n">>, target>>

Files(hebrewFile, greekFile) ==
    [which \in ScriptNames |->
        IF which = "Hebrew" THEN hebrewFile
        ELSE IF which = "Greek" THEN greekFile
        ELSE NoFile]

\* The state of the module once imported (line 52), before any call.
Imported ==
    /\ hebrew_tsv_rows = NoneRows
    /\ greek_tsv_rows = NoneRows
    /\ call = NoCall

(***************************************************************************)
(* Spec: calls in any order, on a text of mixed scripts, with a few tables.*)
(***************************************************************************)
MixedAlphabet == {ALEF, ALPHA, TAB, "a", SP}

HebrewFiles ==
    {NoFile,
     TableFile(HebrewHeader, <<>>),
     TableFile(HebrewHeader, <<Line(<<ALEF>>, <<"b">>)>>),
     TableFile(HebrewHeader, <<Line(<<ALEF>>, <<"b">>), Line(<<ALEF>>, <<"a">>)>>)}

GreekFiles ==
    {TableFile(GreekHeader, <<>>),
     TableFile(GreekHeader, <<Line(<<ALPHA>>, <<"a">>)>>)}

Init ==
    /\ sourceTables \in {Files(h, g) : h \in HebrewFiles, g \in GreekFiles}
    /\ text \in Texts(MixedAlphabet, MaxTextLen)
    /\ Imported

Spec == Init /\ [][Next]_vars


(***************************************************************************)
(* SpecLoad: loads of table files of every shape of line.                  *)
(***************************************************************************)
\* The lines of a table file of a script whose letters are x and y: lines
\* with a cell for every column, with the source cell alone, with a cell too
\* many, with an empty source cell, and blank.
LoadSources(x, y) == {<<x>>, <<y>>, <<x, y>>}
LoadLines(x, y) ==
    {Line(source, <<"a">>) : source \in LoadSources(x, y)}
      \cup {<<source>> : source \in LoadSources(x, y)}
      \cup {Line(source, <<"a">>) \o <<<<"extra">>>> : source \in LoadSources(x, y)}
      \cup {Line(<<>>, <<"a">>), <<>>}

LoadFiles(which, x, y) ==
    {TableFile(Header(which), rows) : rows \in SeqsUpTo(LoadLines(x, y), MaxRows)}

InitLoad ==
    /\ sourceTables \in
         {Files(h, TableFile(GreekHeader, <<Line(<<ALPHA>>, <<"a">>)>>)) :
            h \in LoadFiles("Hebrew", ALEF, BET)}
         \cup {Files(TableFile(HebrewHeader, <<Line(<<ALEF>>, <<"a">>)>>), g) :
            g \in LoadFiles("Greek", ALPHA, IOTA)}
    /\ text = <<>>
    /\ Imported

NextLoad == \E which \in ScriptNames : Load(which)

SpecLoad == InitLoad /\ [][NextLoad]_vars

(***************************************************************************)
(* SpecSubst: the substitution loop, on the tables that load and on texts  *)
(* of the table's script.                                                  *)
(***************************************************************************)
MaxRules == 3     \* rules of a table

\* The sources of a table of a script whose letters are x and y: for Hebrew
\* a letter, its two-letter extension and the sources overlapping them; for
\* Greek a letter and its extension.
SubstSources(which, x, y) ==
    IF which = "Hebrew" THEN {<<x>>, <<y>>, <<x, y>>, <<y, x>>}
    ELSE {<<x>>, <<x, y>>}

\* The targets: a Latin letter, or a letter that is itself a source.
SubstTargets(x) == {<<"a">>, <<x>>}

SubstLines(which, x, y) ==
    {Line(source, target) : source \in SubstSources(which, x, y),
                            target \in SubstTargets(x)}

\* The files whose lines have sources that differ: the others do not load.
SubstFiles(which, x, y) ==
    {TableFile(Header(which), rows) :
       rows \in {r \in SeqsUpTo(SubstLines(which, x, y), MaxRules) :
                   \A i, j \in 1..Len(r) : i # j => r[i][1] # r[j][1]}}

InitSubst ==
    /\ \/ /\ sourceTables \in {Files(h, NoFile) : h \in SubstFiles("Hebrew", ALEF, BET)}
          /\ text \in Texts({ALEF, BET}, MaxTextLen)
       \/ /\ sourceTables \in {Files(NoFile, g) : g \in SubstFiles("Greek", ALPHA, IOTA)}
          /\ text \in Texts({ALPHA, IOTA}, MaxTextLen)
    /\ Imported

NextSubst ==
    \/ \E which \in {"Hebrew", "Greek"} : Load(which)
    \/ TransliterateHebrew(FALSE)
    \/ TransliterateGreek

SpecSubst == InitSubst /\ [][NextSubst]_vars

(***************************************************************************)
(* The substitution loop of the last call (claims C1 and C3).              *)
(***************************************************************************)
\* The last call was a transliteration that reached its substitution loop.
LoopRan ==
    /\ call.op \in {"transliterate_Hebrew", "transliterate_Greek"}
    /\ call.ranLoop

\* The table that loop went through, and its source column.
LoopTable ==
    IF call.op = "transliterate_Hebrew" THEN hebrew_tsv_rows.rows
    ELSE greek_tsv_rows.rows
LoopCode == IF call.op = "transliterate_Hebrew" THEN "hbo" ELSE "x-grc-koine"

ProperPrefix(a, b) == Len(a) < Len(b) /\ SubSeq(b, 1, Len(a)) = a
Chars(s) == {s[i] : i \in 1..Len(s)}

\* Rules a and b of the loop's table, a's source a proper prefix of b's, and
\* b's source in the text the loop ran on.
PrefixPair(a, b) ==
    /\ ProperPrefix(LoopTable[a][LoopCode], LoopTable[b][LoopCode])
    /\ Contains(call.loopInput, LoopTable[b][LoopCode])

\* No other rule with a source at least as long as b's has its source in the
\* text, and b's target is not empty and has no character of any source.
Undisturbed(b) ==
    /\ \A c \in 1..Len(LoopTable) :
          (c # b /\ Len(LoopTable[c][LoopCode]) >= Len(LoopTable[b][LoopCode]))
            => ~Contains(call.loopInput, LoopTable[c][LoopCode])
    /\ LoopTable[b]["en"] # <<>>
    /\ \A c \in 1..Len(LoopTable) :
          Chars(LoopTable[b]["en"]) \cap Chars(LoopTable[c][LoopCode]) = {}

\* The text before, and after, the leftmost occurrence of b's source.
BeforeSource(b) ==
    Slice(call.loopInput, 0, find(call.loopInput, LoopTable[b][LoopCode], 0))
AfterSource(b) ==
    SliceFrom(call.loopInput,
              find(call.loopInput, LoopTable[b][LoopCode], 0)
                + Len(LoopTable[b][LoopCode]))

\* C1 as claimed: whenever rules A and B are in the table with A's source a
\* proper prefix of B's and B's source occurs in the text, the loop's output
\* shows B's target (some rendering of what is before the occurrence, then
\* B's target as a whole, then some rendering of what is after it).
C1_LongestMatchAsClaimed ==
    LoopRan =>
      \A a, b \in 1..Len(LoopTable) :
         PrefixPair(a, b) => Contains(call.loopOutput, LoopTable[b]["en"])

\* C1, amended: longest-match precedence.  When rules A and B are in the
\* table with A's source a proper prefix of B's, B's source occurs in the
\* text, no other rule with a source at least as long as B's has its source
\* in the text, and B's target is not empty and shares no character with a
\* source of the table, the leftmost occurrence of B's source is rendered as
\* B's target as a whole: the output is the loop's output for the text before
\* the occurrence, then B's target, then the loop's output for the text
\* after it.
C1_LongestMatch ==
    LoopRan =>
      \A a, b \in 1..Len(LoopTable) :
         (PrefixPair(a, b) /\ Undisturbed(b))
           => call.loopOutput =
                SubstitutionLoop(BeforeSource(b), LoopTable, LoopCode, 1)
                  \o LoopTable[b]["en"]
                  \o SubstitutionLoop(AfterSource(b), LoopTable, LoopCode, 1)

\* A loop that ran on a text with the shorter source before the occurrence
\* of the longer one, in a table of three rules.
C1_Witness ==
    /\ LoopRan
    /\ Len(LoopTable) = 3
    /\ \E a, b \in 1..Len(LoopTable) :
          /\ PrefixPair(a, b)
          /\ Undisturbed(b)
          /\ Contains(BeforeSource(b), LoopTable[a][LoopCode])
          /\ LoopTable[a]["en"] # LoopTable[b]["en"]

(***************************************************************************)
(* The last load (claims C2, C7 and C8).                                   *)
(***************************************************************************)
FileScripts == {"Hebrew", "Greek"}

Loaded(which) == call.op = "load_transliteration_table" /\ call.which = which
Cache(which) == IF which = "Hebrew" THEN hebrew_tsv_rows ELSE greek_tsv_rows
SourceColumn(which) == IF which = "Hebrew" THEN "hbo" ELSE "x-grc-koine"

\* The data lines of the script's file, the blank ones left out, and the
\* source cell (the first) of the n-th of them.
DataLines(which) == SelectSeq(sourceTables[which].rows, LAMBDA cells : cells # <<>>)
SourceCell(which, n) == DataLines(which)[n][1]

HasDuplicate(which) ==
    \E m, n \in 1..Len(DataLines(which)) :
       m # n /\ SourceCell(which, m) = SourceCell(which, n)
AllSourced(which) ==
    \A n \in 1..Len(DataLines(which)) : SourceCell(which, n) # <<>>

\* The data line a row of the cache was read from.
LineOfRow(which, i) ==
    CHOOSE n \in 1..Len(DataLines(which)) :
       SourceCell(which, n) = Cache(which).rows[i][SourceColumn(which)]

\* C2: after a load that returned, the script's cache holds the rows of the
\* file's data lines in the order of non-increasing source length, and rows
\* with sources of equal length are in the order of their lines in the file.
C2_SortedStable ==
    \A which \in FileScripts :
       (Loaded(which) /\ call.outcome = "return") =>
         LET rows == Cache(which).rows
             code == SourceColumn(which)
         IN  /\ ~Cache(which).isNone
             /\ Len(rows) = Len(DataLines(which))
             /\ \A i \in 1..Len(rows) :
                   \E n \in 1..Len(DataLines(which)) :
                      SourceCell(which, n) = rows[i][code]
             /\ \A i, j \in 1..Len(rows) :
                   i < j =>
                     /\ Len(rows[i][code]) >= Len(rows[j][code])
                     /\ Len(rows[i][code]) = Len(rows[j][code])
                          => LineOfRow(which, i) < LineOfRow(which, j)

\* A load that returned, of a file whose first two lines have sources of
\* one length and whose third line has a longer one.
C2_Witness ==
    \E which \in FileScripts :
       /\ Loaded(which)
       /\ call.outcome = "return"
       /\ Len(DataLines(which)) = 3
       /\ Len(SourceCell(which, 1)) = Len(SourceCell(which, 2))
       /\ Len(SourceCell(which, 3)) > Len(SourceCell(which, 1))
       /\ Cache(which).rows[1][SourceColumn(which)] = SourceCell(which, 3)

DuplicateEntry == LogEntry("critical", "duplicate entry", 0, <<>>)

\* C7 as claimed: a load of a file in which two rows have the same source
\* logs the critical diagnostic and still returns, with a table in the
\* script's cache.
C7_DuplicateAsClaimed ==
    \A which \in FileScripts :
       (Loaded(which) /\ HasDuplicate(which)) =>
         /\ DuplicateEntry \in call.log
         /\ call.outcome = "return"
         /\ ~Cache(which).isNone

\* C7, amended: a load of a file in which two rows have the same source, and
\* every row a source, logs the critical diagnostic, and the count of every
\* source that is there more than once, and then raises NameError: it
\* installs no table, both caches stay as they were.
C7_DuplicateRefused ==
    [][\A which \in FileScripts :
          (/\ call'.op = "load_transliteration_table"
           /\ call'.which = which
           /\ HasDuplicate(which)
           /\ AllSourced(which))
            => /\ call'.outcome = "NameError"
               /\ DuplicateEntry \in call'.log
               /\ \A n \in 1..Len(DataLines(which)) :
                     LET copies == {m \in 1..Len(DataLines(which)) :
                                      SourceCell(which, m) = SourceCell(which, n)}
                     IN  Cardinality(copies) > 1
                           => LogEntry("critical", "duplicate count",
                                       Cardinality(copies), SourceCell(which, n))
                                \in call'.log
               /\ UNCHANGED <<hebrew_tsv_rows, greek_tsv_rows>>]_vars

\* The load of a file with the same source in its first and third line was
\* refused, the other script's table being loaded.
C7_Witness ==
    \E which \in FileScripts :
       /\ Loaded(which)
       /\ Len(DataLines(which)) = 3
       /\ SourceCell(which, 1) = SourceCell(which, 3)
       /\ SourceCell(which, 1) # SourceCell(which, 2)
       /\ AllSourced(which)
       /\ call.outcome = "NameError"
       /\ Cache(which).isNone
       /\ \E other \in FileScripts \ {which} : ~Cache(other).isNone

\* C8: a load of a file whose rows have sources, all different, logs the
\* column count diagnostic for every data row that has fewer or more cells
\* than the header has columns, and goes on: it returns, with a row in the
\* table for every data row.
C8_ColumnCountLogged ==
    \A which \in FileScripts :
       (Loaded(which) /\ AllSourced(which) /\ ~HasDuplicate(which)) =>
         /\ \A n \in 1..Len(DataLines(which)) :
               Len(DataLines(which)[n]) # Len(sourceTables[which].header)
                 => LogEntry("critical", "columns", n - 1, <<>>) \in call.log
         /\ call.outcome = "return"
         /\ Len(Cache(which).rows) = Len(DataLines(which))

\* C3 as claimed: for every rule r of the loaded table, the loop run on a
\* text equal to r's source leaves a text that contains r's target and no
\* longer contains r's source.
C3_RoundTripAsClaimed ==
    LoopRan =>
      \A r \in 1..Len(LoopTable) :
         call.loopInput = LoopTable[r][LoopCode]
           => /\ Contains(call.loopOutput, LoopTable[r]["en"])
              /\ ~Contains(call.loopOutput, LoopTable[r][LoopCode])

\* No rule at r's place in the table or after it has its source in r's
\* target.
TargetKept(r) ==
    \A c \in r..Len(LoopTable) :
       ~Contains(LoopTable[r]["en"], LoopTable[c][LoopCode])

\* C3, amended: round-trip coverage.  For every rule r of the loaded table
\* such that no rule at r's place or after it has its source in r's target,
\* the loop run on a text equal to r's source leaves exactly r's target,
\* which no longer contains r's source.
C3_RoundTrip ==
    LoopRan =>
      \A r \in 1..Len(LoopTable) :
         (call.loopInput = LoopTable[r][LoopCode] /\ TargetKept(r))
           => /\ call.loopOutput = LoopTable[r]["en"]
              /\ ~Contains(call.loopOutput, LoopTable[r][LoopCode])

\* The loop ran on the source of a rule that has, after it in the table, a
\* rule for a prefix of that source and a rule with another target.
C3_Witness ==
    /\ LoopRan
    /\ \E r, c, d \in 1..Len(LoopTable) :
          /\ r < c
          /\ r < d
          /\ call.loopInput = LoopTable[r][LoopCode]
          /\ TargetKept(r)
          /\ ProperPrefix(LoopTable[c][LoopCode], LoopTable[r][LoopCode])
          /\ LoopTable[d]["en"] # LoopTable[r]["en"]

(***************************************************************************)
(* The transliterators as the caller sees them (claims C4, C5, C6, C9 and  *)
(* C10).                                                                   *)
(***************************************************************************)
\* Whether a text has a codepoint with HEBREW, or GREEK, in its name.
HasHebrew(t) == \E i \in 1..Len(t) : t[i] \in HebrewChars
HasGreek(t) == \E i \in 1..Len(t) : t[i] \in GreekChars

\* C4: script-absence pass-through.  A call of transliterate_Hebrew, with
\* either value of the flag, on a text without a Hebrew codepoint returns
\* the text as it is after one warning, raises nothing and leaves both
\* caches as they are, whatever they hold (None as well); a call of
\* transliterate_Greek does so on a text without a Greek codepoint.
C4_PassThrough ==
    [][/\ (call'.op = "transliterate_Hebrew" /\ ~HasHebrew(text))
            => /\ call'.outcome = "return"
               /\ call'.value = text
               /\ call'.log = {LogEntry("warning", "no Hebrew", 0, text)}
               /\ UNCHANGED <<hebrew_tsv_rows, greek_tsv_rows>>
       /\ (call'.op = "transliterate_Greek" /\ ~HasGreek(text))
            => /\ call'.outcome = "return"
               /\ call'.value = text
               /\ call'.log = {LogEntry("warning", "no Greek", 0, text)}
               /\ UNCHANGED <<hebrew_tsv_rows, greek_tsv_rows>>]_vars

\* transliterate_Hebrew, asked to capitalise, passed a text of Greek and of
\* a character without a name through, with no Hebrew table loaded.
C4_Witness ==
    /\ call.op = "transliterate_Hebrew"
    /\ call.capitaliseHebrew
    /\ ~HasHebrew(text)
    /\ HasGreek(text)
    /\ \E i \in 1..Len(text) : text[i] \in NamelessChars
    /\ hebrew_tsv_rows.isNone
    /\ call.outcome = "return"
    /\ call.value = text

\* The places of the first and of the last Hebrew codepoint of a text.
FirstHebrew(t) ==
    CHOOSE i \in 1..Len(t) :
       t[i] \in HebrewChars /\ \A j \in 1..(i - 1) : t[j] \notin HebrewChars
LastHebrew(t) ==
    CHOOSE i \in 1..Len(t) :
       t[i] \in HebrewChars /\ \A j \in (i + 1)..Len(t) : t[j] \notin HebrewChars

\* C5: whenever transliterate_Hebrew returns on a text with Hebrew in it,
\* with or without capitalisation, the output is the input before the first
\* Hebrew codepoint, then what the function makes of the span from the first
\* to the last Hebrew codepoint, then the input after the last Hebrew
\* codepoint.
C5_Frame ==
    (call.op = "transliterate_Hebrew" /\ call.outcome = "return" /\ HasHebrew(text)) =>
      LET span == SubSeq(text, FirstHebrew(text), LastHebrew(text))
          processed == transliterate_Hebrew(span, call.capitaliseHebrew, hebrew_tsv_rows)
      IN  /\ processed.outcome = "return"
          /\ call.value = SubSeq(text, 1, FirstHebrew(text) - 1)
                            \o processed.value
                            \o SubSeq(text, LastHebrew(text) + 1, Len(text))

\* A capitalising call returned on a text with something before its Hebrew
\* and something after it.
C5_Witness ==
    /\ call.op = "transliterate_Hebrew"
    /\ call.outcome = "return"
    /\ call.capitaliseHebrew
    /\ HasHebrew(text)
    /\ FirstHebrew(text) > 1
    /\ LastHebrew(text) < Len(text)
    /\ call.value # text

Transliterated ==
    /\ call.op \in {"transliterate_Hebrew", "transliterate_Greek"}
    /\ call.outcome = "return"

\* C6 as claimed: whenever a transliterator returns a value, check_text of
\* that value is True, the value having no Hebrew and no Greek codepoint.
C6_NoResidualAsClaimed ==
    Transliterated =>
      /\ check_text(call.value).passed
      /\ ~HasHebrew(call.value)
      /\ ~HasGreek(call.value)

\* C6, amended: whenever transliterate_Hebrew returns a value, the value has
\* no Hebrew codepoint, and whenever transliterate_Greek returns one, it has
\* no Greek codepoint; check_text of the value is True exactly when the
\* value has no codepoint of the other script either.
C6_NoResidual ==
    /\ (Transliterated /\ call.op = "transliterate_Hebrew")
         => /\ ~HasHebrew(call.value)
            /\ check_text(call.value).passed <=> ~HasGreek(call.value)
    /\ (Transliterated /\ call.op = "transliterate_Greek")
         => /\ ~HasGreek(call.value)
            /\ check_text(call.value).passed <=> ~HasHebrew(call.value)

\* transliterate_Hebrew returned the transliteration of a text that has
\* Hebrew and Greek in it.
C6_Witness ==
    /\ Transliterated
    /\ call.op = "transliterate_Hebrew"
    /\ HasHebrew(text)
    /\ HasGreek(text)
    /\ call.ranLoop
    /\ ~check_text(call.value).passed

\* What a load of the script's file, and then the transliteration of the
\* text, gives.
AfterLoad(which, capitaliseHebrew) ==
    LET loaded == load_transliteration_table(which, sourceTables)
        table == IF loaded.outcome = "return" THEN RowList(loaded.rows) ELSE NoneRows
    IN  IF which = "Hebrew" THEN transliterate_Hebrew(text, capitaliseHebrew, table)
        ELSE transliterate_Greek(text, table)

\* C9 as claimed: the table is built at first use.  A transliteration of a
\* text with the script in it, called while the script's cache is as the
\* import left it, gives what it gives after a load, whenever that is a
\* transliteration.
C9_BuiltAtFirstUseAsClaimed ==
    /\ (/\ call.op = "transliterate_Hebrew"
        /\ HasHebrew(text)
        /\ hebrew_tsv_rows.isNone
        /\ AfterLoad("Hebrew", call.capitaliseHebrew).outcome = "return")
         => /\ call.outcome = "return"
            /\ call.value = AfterLoad("Hebrew", call.capitaliseHebrew).value
    /\ (/\ call.op = "transliterate_Greek"
        /\ HasGreek(text)
        /\ greek_tsv_rows.isNone
        /\ AfterLoad("Greek", FALSE).outcome = "return")
         => /\ call.outcome = "return"
            /\ call.value = AfterLoad("Greek", FALSE).value

\* C9, amended: no table is built at first use.  A transliteration of a text
\* with the script in it, called while the script's cache is None, raises
\* TypeError and leaves the cache None; a cache is set, or set again, only
\* by a call of load_transliteration_table that returns, the Hebrew cache
\* by a load for Hebrew and the Greek cache by a load for another name.
C9_Lifecycle ==
    [][/\ (call'.op = "transliterate_Hebrew" /\ HasHebrew(text) /\ hebrew_tsv_rows.isNone)
            => (call'.outcome = "TypeError" /\ hebrew_tsv_rows'.isNone)
       /\ (call'.op = "transliterate_Greek" /\ HasGreek(text) /\ greek_tsv_rows.isNone)
            => (call'.outcome = "TypeError" /\ greek_tsv_rows'.isNone)
       /\ hebrew_tsv_rows' # hebrew_tsv_rows
            => /\ call'.op = "load_transliteration_table"
               /\ call'.which = "Hebrew"
               /\ call'.outcome = "return"
       /\ greek_tsv_rows' # greek_tsv_rows
            => /\ call'.op = "load_transliteration_table"
               /\ call'.which # "Hebrew"
               /\ call'.outcome = "return"]_vars

\* transliterate_Hebrew failed on Hebrew text for want of a table that a
\* load would have given it, the Greek table being loaded.
C9_Witness ==
    /\ call.op = "transliterate_Hebrew"
    /\ HasHebrew(text)
    /\ hebrew_tsv_rows.isNone
    /\ ~greek_tsv_rows.isNone
    /\ call.outcome = "TypeError"
    /\ AfterLoad("Hebrew", call.capitaliseHebrew).outcome = "return"

\* C10: the caches are read-only outside loading.  transliterate_Hebrew,
\* transliterate_Greek, check_line and check_text leave both caches as they
\* are, whether they return or fail; only load_transliteration_table
\* changes a cache; a load for Hebrew leaves the Greek cache as it is and a
\* load for Greek the Hebrew one.
C10_CachesReadOnly ==
    [][/\ call'.op \in {"transliterate_Hebrew", "transliterate_Greek",
                        "check_line", "check_text"}
            => UNCHANGED <<hebrew_tsv_rows, greek_tsv_rows>>
       /\ <<hebrew_tsv_rows, greek_tsv_rows>>' # <<hebrew_tsv_rows, greek_tsv_rows>>
            => call'.op = "load_transliteration_table"
       /\ (call'.op = "load_transliteration_table" /\ call'.which = "Hebrew")
            => UNCHANGED greek_tsv_rows
       /\ (call'.op = "load_transliteration_table" /\ call'.which = "Greek")
            => UNCHANGED hebrew_tsv_rows]_vars

\* transliterate_Hebrew failed with both tables loaded, the Hebrew one with
\* a rule in it.
C10_Witness ==
    /\ call.op = "transliterate_Hebrew"
    /\ call.outcome \notin {"return", "TypeError"}
    /\ ~hebrew_tsv_rows.isNone
    /\ hebrew_tsv_rows.rows # <<>>
    /\ ~greek_tsv_rows.isNone
    /\ greek_tsv_rows.rows # <<>>

(***************************************************************************)
(* SpecGreek: transliterate_Greek on texts of Greek and Latin letters,     *)
(* with tables that render the Greek letters as the Latin letters the      *)
(* repairs of lines 344-357 look for.                                      *)
(***************************************************************************)
MaxGreekTextLen == 4     \* characters of the caller's text

COMBINING_ACUTE == "COMBINING ACUTE ACCENT"     \* U+0301

GreekPostAlphabet == {ALPHA, IOTA, "a", "u", "i", "e", COMBINING_ACUTE}

\* A table of the two letters that also drops the accent, which is not a
\* Greek codepoint, and one that renders iota as a capital.
GreekPostFiles ==
    {TableFile(GreekHeader, <<Line(<<ALPHA>>, <<"a">>), Line(<<IOTA>>, <<"i">>),
                              Line(<<COMBINING_ACUTE>>, <<>>)>>),
     TableFile(GreekHeader, <<Line(<<ALPHA>>, <<"a">>), Line(<<IOTA>>, <<"I">>)>>)}

InitGreek ==
    /\ sourceTables \in {Files(NoFile, g) : g \in GreekPostFiles}
    /\ text \in Texts(GreekPostAlphabet, MaxGreekTextLen)
    /\ Imported

NextGreek ==
    \/ Load("Greek")
    \/ TransliterateGreek

SpecGreek == InitGreek /\ [][NextGreek]_vars

(***************************************************************************)
(* The claims about transliterate_Greek's repairs.                         *)
(***************************************************************************)
\* The places of the first and of the last Greek codepoint of a text.
FirstGreek(t) ==
    CHOOSE i \in 1..Len(t) :
       t[i] \in GreekChars /\ \A j \in 1..(i - 1) : t[j] \notin GreekChars
LastGreek(t) ==
    CHOOSE i \in 1..Len(t) :
       t[i] \in GreekChars /\ \A j \in (i + 1)..Len(t) : t[j] \notin GreekChars

\* The text before the first and the text after the last Greek codepoint.
BeforeGreek(t) == SubSeq(t, 1, FirstGreek(t) - 1)
AfterGreek(t) == SubSeq(t, LastGreek(t) + 1, Len(t))

\* transliterate_Greek got as far as the "aui" rewrite of lines 345-346.
GreekRewritten ==
    /\ call.op = "transliterate_Greek"
    /\ call.stages.reached \in {"aui", "checked"}

\* The substitution loop left the text before the first and the text after
\* the last Greek codepoint as they were: the result of the loop is that
\* text, the rendering of the span, and that text.
FramedByLoop ==
    /\ Len(call.loopOutput) >= Len(BeforeGreek(text)) + Len(AfterGreek(text))
    /\ startswith(call.loopOutput, BeforeGreek(text))
    /\ endswith(call.loopOutput, AfterGreek(text))

\* The rendering of the span in the result of the loop.
RenderedSpan ==
    Slice(call.loopOutput, Len(BeforeGreek(text)),
          Len(call.loopOutput) - Len(AfterGreek(text)))

\* Every "aui" of the result of the loop lies in one of the three parts.
NoAuiAcrossParts ==
    \A i \in 0..(Len(call.loopOutput) - 3) :
       MatchAt(call.loopOutput, AUI, i) =>
          \/ i + 3 <= Len(BeforeGreek(text))
          \/ /\ i >= Len(BeforeGreek(text))
             /\ i + 3 <= Len(call.loopOutput) - Len(AfterGreek(text))
          \/ i >= Len(call.loopOutput) - Len(AfterGreek(text))

\* C11: the "aui" to "awi" rewrite of transliterate_Greek is confined to the
\* Greek span.  Where the substitution loop left the text before the first
\* and after the last Greek codepoint as it was, the text after the rewrite
\* is the text before the first Greek codepoint as it was, the rendering of
\* the span with every "aui" made "awi", and the text after the last Greek
\* codepoint as it was.
C11_AuiWithinSpan ==
    (GreekRewritten /\ FramedByLoop /\ NoAuiAcrossParts) =>
       call.stages.afterAui =
          BeforeGreek(text) \o replace(RenderedSpan, AUI, AWI) \o AfterGreek(text)

\* transliterate_Greek returned the text it made of a text with Greek in it.
GreekReturned ==
    /\ call.op = "transliterate_Greek"
    /\ call.outcome = "return"
    /\ call.stages.reached = "checked"

\* The place (0-based) in the result of the substitution loop where the
\* rendering of the span starts: behind what the loop made of the text
\* before the first Greek codepoint.
SpanStartInResult ==
    Len(SubstitutionLoop(BeforeGreek(text), greek_tsv_rows.rows, "x-grc-koine", 1))

\* s with the two characters at place i (0-based) replaced by pair.
WithPairAt(s, i, pair) == Slice(s, 0, i) \o pair \o SliceFrom(s, i + 2)

\* C12: the index of the first Greek codepoint of the input still addresses
\* the start of the span after the substitution over the whole input; if the
\* transliterated span begins with "ie" (or "Ie"), the text returned is the
\* checked text with exactly those two characters replaced by "ye" (or
\* "Ye"); if it begins with anything else, the text returned is the checked
\* text.
C12_InitialIe ==
    GreekReturned =>
       LET checked == call.stages.checked
           start == SpanStartInResult
       IN  /\ start = FirstGreek(text) - 1
           /\ call.value =
                IF MatchAt(checked, <<"i", "e">>, start)
                THEN WithPairAt(checked, start, <<"y", "e">>)
                ELSE IF MatchAt(checked, <<"I", "e">>, start)
                THEN WithPairAt(checked, start, <<"Y", "e">>)
                ELSE checked

(***************************************************************************)
(* SpecCheck: the validator on texts of several lines.                     *)
(***************************************************************************)
\* A Hebrew and a Greek letter, the newline, a character without a name, a
\* Latin letter and a character of the allow-list.
CheckAlphabet == {ALEF, ALPHA, LF, TAB, "a", ","}

InitCheck ==
    /\ sourceTables = Files(NoFile, NoFile)
    /\ text \in Texts(CheckAlphabet, MaxTextLen)
    /\ Imported

NextCheck ==
    \/ CheckLine
    \/ CheckText

SpecCheck == InitCheck /\ [][NextCheck]_vars

\* The places of the characters of t whose name has HEBREW or GREEK in it.
ScriptPlaces(t) == {i \in 1..Len(t) : t[i] \in HebrewChars \cup GreekChars}

\* The first of them in reading order.
FirstScriptPlace(t) == CHOOSE i \in ScriptPlaces(t) : \A j \in ScriptPlaces(t) : i <= j

\* The places of the newlines before place i of t.
NewlinesBefore(t, i) == {j \in 1..(i - 1) : t[j] = LF}

\* The line (1-based) place i of t lies on, and its position (1-based) on
\* that line.
LineOf(t, i) == Cardinality(NewlinesBefore(t, i)) + 1
PositionOf(t, i) ==
    IF NewlinesBefore(t, i) = {} THEN i
    ELSE i - (CHOOSE j \in NewlinesBefore(t, i) : \A k \in NewlinesBefore(t, i) : k <= j)

\* C13: check_text(text) returns False exactly when some character of text
\* has a name containing HEBREW or GREEK; it then logs one diagnostic, with
\* the line number and the character of the first such character in reading
\* order, whose position on its line is the one check_line found; when it
\* returns True it logs nothing.
C13_CheckText ==
    call.op = "check_text" =>
       /\ call.outcome = "return"
       /\ call.passed <=> ScriptPlaces(text) = {}
       /\ call.passed => call.log = {} /\ call.position = 0
       /\ ~call.passed =>
            LET first == FirstScriptPlace(text) IN
            /\ call.log = {LogEntry("critical", "found", LineOf(text, first),
                                    <<text[first]>>)}
            /\ call.position = PositionOf(text, first)

\* check_text failed on a Greek letter at position 2 of line 2, behind a
\* character without a name.
C13_Witness ==
    /\ call.op = "check_text"
    /\ ~call.passed
    /\ text = <<LF, TAB, ALPHA>>
    /\ call.position = 2
    /\ \E entry \in call.log : entry.n = 2

(***************************************************************************)
(* SpecRepair: the repairs of transliterate_Hebrew.  The table drops the   *)
(* letter alef and the text is a span from one alef to another, so that    *)
(* the substitution loop leaves the characters between them, drawn from    *)
(* the letters and separators each repair looks for, as the running text.  *)
(***************************************************************************)
MaxSpanLen == 4     \* characters between the two Hebrew letters

RepairFile == TableFile(HebrewHeader, <<Line(<<ALEF>>, <<>>)>>)

\* The letters of the "iy" repair, of the doubled first letters, of the
\* final h-cedilla and a, of the schwa elision and of the capitalisation.
IYAlphabet == {"i", "y", "b", "a"}
DageshAlphabet == {"b", "a", SP, "-"}
HAAlphabet == {HCEDILLA, "a", "b", SP, ".", ","}
SchwaAlphabet == {SCHWA, "a", "d", SP}
CapitalAlphabet == {TSDIGRAPH, SUBA, SUBE, VHOOK, MODAPOSTROPHE, MODACUTE, "a", "1"}

\* A word with a schwa, then the same word with one letter more.
SchwaWordPairs ==
    {word \o <<SP>> \o word \o <<letter>> :
       word \in {w \in Texts(SchwaAlphabet \ {SP}, MaxSpanLen) : Len(w) = MaxSpanLen},
       letter \in {"d"}}

RepairSpans ==
    Texts(IYAlphabet, MaxSpanLen) \cup Texts(DageshAlphabet, MaxSpanLen)
      \cup Texts(HAAlphabet, MaxSpanLen) \cup Texts(SchwaAlphabet, MaxSpanLen)
      \cup Texts(CapitalAlphabet, 2) \cup SchwaWordPairs

InitRepair ==
    /\ sourceTables = Files(RepairFile, NoFile)
    /\ text \in {<<ALEF>> \o span \o <<ALEF>> : span \in RepairSpans}
    /\ Imported

NextRepair ==
    \/ Load("Hebrew")
    \/ \E capitaliseHebrew \in BOOLEAN : TransliterateHebrew(capitaliseHebrew)

SpecRepair == InitRepair /\ [][NextRepair]_vars

(***************************************************************************)
(* The claims about the repairs of transliterate_Hebrew.                   *)
(***************************************************************************)
\* transliterate_Hebrew got through the stage named, or further.
StageOrder == <<"none", "loop", "iy", "words", "asserts", "schwa", "checked">>
StageNumber(stage) == CHOOSE k \in 1..Len(StageOrder) : StageOrder[k] = stage
HebrewReached(stage) ==
    /\ call.op = "transliterate_Hebrew"
    /\ StageNumber(call.stages.reached) >= StageNumber(stage)

\* The consonants of the "iy" repair: bdfghklmnpqrsştţvz.
RepairedBefore == {"b", "d", "f", "g", "h", "k", "l", "m", "n", "p", "q", "r", "s",
                   SCEDILLA, "t", TCEDILLA, "v", "z"}

\* The places (1-based) of the y's of s that stand behind an i and before
\* one of those consonants.
SpuriousYs(s) ==
    {p \in 2..(Len(s) - 1) :
       s[p] = "y" /\ s[p - 1] = "i" /\ s[p + 1] \in RepairedBefore}

\* s without the characters at the places given.
RECURSIVE Without(_, _)
Without(s, places) ==
    IF s = <<>> THEN <<>>
    ELSE Without(SubSeq(s, 1, Len(s) - 1), places)
           \o (IF Len(s) \in places THEN <<>> ELSE <<s[Len(s)]>>)

BeforeHebrew(t) == SubSeq(t, 1, FirstHebrew(t) - 1)
AfterHebrew(t) == SubSeq(t, LastHebrew(t) + 1, Len(t))

\* The capital form of a character: Ts, A, E and V for the four letters
\* without an uppercase form, the uppercase of any other.
CapitalForm(char) ==
    CASE char = TSDIGRAPH -> <<"T", "s">>
      [] char = SUBA -> <<"A">>
      [] char = SUBE -> <<"E">>
      [] char = VHOOK -> <<"V">>
      [] OTHER -> <<upper(char)>>

\* The span with its first character in capital form, or the character
\* behind a glottal marker at its start.
WithCapital(span) ==
    IF span = <<>> THEN span
    ELSE IF span[1] \in {MODAPOSTROPHE, MODACUTE}
    THEN IF Len(span) = 1 THEN span
         ELSE <<span[1]>> \o CapitalForm(span[2]) \o SubSeq(span, 3, Len(span))
    ELSE CapitalForm(span[1]) \o SubSeq(span, 2, Len(span))

\* C14: capitalisation.  Whenever the span of a call of transliterate_Hebrew
\* has gone through the repairs and the left-over check, the call returns,
\* whatever the first character and the length of the processed span: with
\* capitaliseHebrew False the text before the span, the processed span and
\* the text after it, and with capitaliseHebrew True the same text but for
\* the first character of the processed span (the one behind a glottal
\* marker at its start, the marker being kept), which is in its capital
\* form.
C14_Capitalised ==
    HebrewReached("checked") =>
       /\ call.outcome = "return"
       /\ call.value = BeforeHebrew(text)
                         \o (IF call.capitaliseHebrew
                             THEN WithCapital(call.stages.checked)
                             ELSE call.stages.checked)
                         \o AfterHebrew(text)

(***************************************************************************)
(* The claims about codepoints without a name and about left-overs.        *)
(***************************************************************************)
HasNameless(t) == \E i \in 1..Len(t) : t[i] \in NamelessChars

\* C16: codepoints without a Unicode name are skipped, never an error.  A
\* call of transliterate_Hebrew or transliterate_Greek on a text that has
\* codepoints without a name in it does not end in the ValueError of a name
\* lookup; the scans take such a codepoint for one of no script (the text
\* passes through when it has no codepoint of the script, and the Hebrew
\* span runs from the first to the last Hebrew codepoint).
C16_NamelessSkipped ==
    (call.op \in {"transliterate_Hebrew", "transliterate_Greek"} /\ HasNameless(text)) =>
       /\ call.outcome # "ValueError"
       /\ (call.op = "transliterate_Hebrew" /\ ~HasHebrew(text)) => call.value = text
       /\ (call.op = "transliterate_Greek" /\ ~HasGreek(text)) => call.value = text
       /\ (call.op = "transliterate_Hebrew" /\ HasHebrew(text)) =>
             call.loopInput = SubSeq(text, FirstHebrew(text), LastHebrew(text))

\* The call logged a critical diagnostic.
LoggedCritical == \E entry \in call.log : entry.level = "critical"

\* C15: the residual-script post-condition is fatal.  If a Hebrew codepoint
\* is left in the span of transliterate_Hebrew after the substitution and
\* the repairs, or a Greek codepoint in the result of transliterate_Greek
\* after the substitution and the "aui" rewrite, the call logs a critical
\* diagnostic and ends in an error, returning no text; hence a value
\* returned by transliterate_Hebrew on a text with Hebrew in it has no
\* Hebrew codepoint, and one returned by transliterate_Greek on a text with
\* Greek in it has no Greek codepoint.
C15_ResidualFatal ==
    /\ (HebrewReached("schwa") /\ HasHebrew(call.stages.afterSchwa))
          => call.outcome # "return" /\ call.value = <<>> /\ LoggedCritical
    /\ (GreekRewritten /\ HasGreek(call.stages.afterAui))
          => call.outcome # "return" /\ call.value = <<>> /\ LoggedCritical
    /\ (Transliterated /\ call.op = "transliterate_Hebrew" /\ HasHebrew(text))
          => ~HasHebrew(call.value)
    /\ (Transliterated /\ call.op = "transliterate_Greek" /\ HasGreek(text))
          => ~HasGreek(call.value)

\* The separators of words: space, period, comma, hyphen and newline.
WordSeparators == {SP, ".", ",", "-", LF}

\* The places (1-based) where the words of s start.
WordStarts(s) ==
    {p \in 1..Len(s) :
       s[p] \notin WordSeparators /\ (p = 1 \/ s[p - 1] \in WordSeparators)}

\* The places of the first characters of the words of s whose first two
\* characters are identical.
DoubledStarts(s) == {p \in WordStarts(s) : p < Len(s) /\ s[p + 1] = s[p]}

\* s is free of the characters given.
FreeOf(s, chars) == \A p \in 1..Len(s) : s[p] \notin chars

\* C18: after the first word loop of transliterate_Hebrew, every word of
\* the span (the words being delimited by space, period, comma, hyphen or
\* newline) of two characters or more whose first two characters are
\* identical has lost its first character in the running text, and nothing
\* else of the text has changed.  (Stated of spans without markup and
\* without h-cedilla, on which the loop does nothing else.)
C18_DoubledInitials ==
    (HebrewReached("words")
       /\ FreeOf(call.stages.afterInitialDagesh, {HCEDILLA, "<", ">"})) =>
          call.stages.afterWords =
             Without(call.stages.afterInitialDagesh,
                     DoubledStarts(call.stages.afterInitialDagesh))

\* The places of the h-cedilla of every "h-cedilla, a" that ends a word of
\* s: the end of s, a separator or '<' follows it.
FinalHAs(s) ==
    {p \in 1..(Len(s) - 1) :
       /\ s[p] = HCEDILLA /\ s[p + 1] = "a"
       /\ (p + 1 = Len(s) \/ s[p + 2] \in WordSeparators \cup {"<"})}

\* s with the two characters swapped at each of those places.
WithFinalAH(s) ==
    [p \in 1..Len(s) |->
       IF p \in FinalHAs(s) THEN "a"
       ELSE IF p - 1 \in FinalHAs(s) THEN HCEDILLA
       ELSE s[p]]

\* C19: the word loop of transliterate_Hebrew swaps the "h-cedilla, a" that
\* ends a word, whatever follows the word (space, '<', period, comma,
\* hyphen, newline or the end of the span), to "a, h-cedilla", changes no
\* other character, and the assertions behind the loop then hold.  (Stated
\* of spans without markup and without a doubled first letter of a word, on
\* which the loop does nothing else.)
C19_FinalHA ==
    (HebrewReached("words")
       /\ FreeOf(call.stages.afterInitialDagesh, {"<", ">"})
       /\ DoubledStarts(call.stages.afterInitialDagesh) = {}) =>
          /\ call.stages.afterWords = WithFinalAH(call.stages.afterInitialDagesh)
          /\ HebrewReached("asserts")

\* The consonants and the short vowels of the schwa elision, and the
\* consonants whose doubling behind the schwa goes with it.
ElisionConsonants ==
    {MODAPOSTROPHE, MODACUTE, "b", "d", "f", "g", "h", HCEDILLA, "k", KDESCENDER,
     "l", "m", "n", "p", "q", "r", "s", SCEDILLA, SCARON, "t", TCEDILLA, TSDIGRAPH,
     "v", VHOOK, "y", "z"}
ElisionVowels == {"a", "e", "i", "o", "u"}
ElisionDoubled == {"d", "g", "k", "m", "q", "r", TSDIGRAPH, "y"}

\* The places (1-based) of the silent schwas of s: behind a consonant that
\* stands behind a short vowel, which puts them at index 2 or more of their
\* word.
SilentSchwas(s) ==
    {p \in 3..Len(s) :
       s[p] = SCHWA /\ s[p - 1] \in ElisionConsonants /\ s[p - 2] \in ElisionVowels}

\* The places of the first of two identical consonants behind a silent
\* schwa.
DoubledBehindSchwa(s) ==
    {p + 1 : p \in {q \in SilentSchwas(s) :
                      q + 2 <= Len(s) /\ s[q + 1] \in ElisionDoubled /\ s[q + 2] = s[q + 1]}}

\* C20: when the schwa pass of transliterate_Hebrew has gone through, the
\* running text is the text before the pass without its silent schwas (the
\* schwas at index 2 or more of their word, behind a consonant of the set
\* that stands behind one of a, e, i, o, u) and without one consonant of an
\* identical pair of d, g, k, m, q, r, ts-digraph or y behind such a schwa;
\* every other schwa and every other character is in its place, also when a
\* word occurs several times or inside another word.
C20_SchwaElision ==
    HebrewReached("schwa") =>
       call.stages.afterSchwa =
          Without(call.stages.afterWords,
                  SilentSchwas(call.stages.afterWords)
                    \cup DoubledBehindSchwa(call.stages.afterWords))

(***************************************************************************)
(* SpecLoops: the two capped loops of transliterate_Hebrew, on spans of    *)
(* one word with up to MaxLoopLen schwas or "iy"s (the table and the frame *)
(* of the text are those of SpecRepair).                                   *)
(***************************************************************************)
MaxLoopLen == 7     \* characters between the two Hebrew letters

LoopSpans ==
    Texts({SCHWA, "a", "d"}, MaxLoopLen) \cup Texts({"i", "y", "b"}, MaxLoopLen)

InitLoops ==
    /\ sourceTables = Files(RepairFile, NoFile)
    /\ text \in {<<ALEF>> \o span \o <<ALEF>> : span \in LoopSpans}
    /\ Imported

NextLoops ==
    \/ Load("Hebrew")
    \/ TransliterateHebrew(FALSE)

SpecLoops == InitLoops /\ [][NextLoops]_vars

(***************************************************************************)
(* The claim about the caps of the loops.                                  *)
(***************************************************************************)
\* The words of the schwa pass in s, as pairs of their first and last place:
\* the runs of characters between space, comma, period and newline.
SchwaPassSeparators == {SP, ",", ".", LF}
SchwaPassWords(s) ==
    {w \in (1..Len(s)) \X (1..Len(s)) :
       /\ w[1] <= w[2]
       /\ \A k \in w[1]..w[2] : s[k] \notin SchwaPassSeparators
       /\ (w[1] = 1 \/ s[w[1] - 1] \in SchwaPassSeparators)
       /\ (w[2] = Len(s) \/ s[w[2] + 1] \in SchwaPassSeparators)}

\* The number of schwas of the word w of s.
SchwasOf(s, w) == Cardinality({k \in w[1]..w[2] : s[k] = SCHWA})

\* The number of places of s where "iy" stands.
IYOccurrences(s) ==
    Cardinality({p \in 1..(Len(s) - 1) : s[p] = "i" /\ s[p + 1] = "y"})

\* The number of those behind which a character stands.
IYFollowed(s) ==
    Cardinality({p \in 1..(Len(s) - 2) : s[p] = "i" /\ s[p + 1] = "y"})

\* The last turns of the "iy" loop: the loop can be in any of them with the
\* span of the state still ahead of its scan, the turns before having gone
\* to as many "iy" further up in a longer running text.
LateTurns == (IYSafetyCount - MaxLoopLen)..IYSafetyCount

\* C21: the loops are bounded.  A call of transliterate_Hebrew that reaches
\* the "iy" loop yields an outcome; the loop leaves normally when the span
\* has fewer than 2,000 "iy", and so it does from any of its last turns on
\* when the turns taken and the "iy" still ahead are fewer than 2,000
\* together; when it does not leave normally, its 2,000 turns are used up
\* and the outcome is a NameError behind a critical diagnostic, which is
\* what happens when the turns taken and the "iy" ahead that have a
\* character behind them are 2,000 or more.  The schwa
\* loop of a word leaves normally exactly when the word has at most five
\* schwas; with six or more its 6 turns are used up and the call ends in
\* NameError.  A call that ends so returns no text.
C21_BoundedLoops ==
    HebrewReached("loop") =>
       /\ call.outcome \in {"return", "NameError", "AssertionError", "ValueError",
                            "IndexError"}
       /\ IYOccurrences(call.loopOutput) < IYSafetyCount => HebrewReached("iy")
       /\ \A turn \in LateTurns :
             LET fromTurn == IYLoop(call.loopOutput, 0, turn) IN
             /\ turn + IYOccurrences(call.loopOutput) < IYSafetyCount
                   => fromTurn.outcome = "return"
             /\ fromTurn.outcome # "return"
                   => /\ fromTurn.outcome = "NameError"
                      /\ \E entry \in fromTurn.log : entry.level = "critical"
                      /\ turn + IYOccurrences(call.loopOutput) >= IYSafetyCount
             /\ turn + IYFollowed(call.loopOutput) >= IYSafetyCount
                   => fromTurn.outcome = "NameError"
       /\ HebrewReached("asserts") =>
             /\ HebrewReached("schwa") <=>
                   \A w \in SchwaPassWords(call.stages.afterWords) :
                      SchwasOf(call.stages.afterWords, w) < SchwaSafetyCount
             /\ ~HebrewReached("schwa")
                   => call.outcome = "NameError" /\ call.value = <<>>

\* The schwa loop used up its six turns on a word of six schwas, none of
\* them silent, and the call ended in NameError.
C21_Witness ==
    /\ HebrewReached("asserts")
    /\ ~HebrewReached("schwa")
    /\ call.stages.afterWords = <<"d", SCHWA, SCHWA, SCHWA, SCHWA, SCHWA, SCHWA>>
    /\ call.outcome = "NameError"
    /\ call.value = <<>>

(***************************************************************************)
(* The words of the two word loops of transliterate_Hebrew.                *)
(***************************************************************************)
\* Whether an assert statement on a word (line 176 in the first word loop,
\* line 219 in the second) stopped the call: the first word loop raises
\* nothing else, the second one raises a NameError when a word uses up its
\* turns.
EmptyWordInFirstLoop == HebrewReached("iy") /\ ~HebrewReached("words")
EmptyWordInSecondLoop ==
    /\ HebrewReached("asserts") /\ ~HebrewReached("schwa")
    /\ call.outcome = "AssertionError"

\* C22: in every call of transliterate_Hebrew that got to the word loops,
\* both loops see only non-empty words: neither assertion on a word fails,
\* also when the transliterated span begins with a separator or has a long
\* run of separators.
C22_NoEmptyWord ==
    HebrewReached("iy") => ~EmptyWordInFirstLoop /\ ~EmptyWordInSecondLoop

====
